---- MODULE Spec2Model ----
(***************************************************************************)
(* Model of the board tracker of pgn2latex.py: class Board (reset,         *)
(* path_clear, can_reach, apply_san, _do_move, to_fen) and the replay loop *)
(* of generate_latex that feeds the SAN tokens of a game to a fresh Board  *)
(* (specification Spec), and of the UCI command loop of chess-uci.py: main *)
(* and generate_move (specification SpecUci).                              *)
(*                                                                         *)
(* Python strings are sequences of one-character strings: the token "Nf3"  *)
(* is <<"N","f","3">>.  The board is the list of eight rows of the source, *)
(* board[rank+1][file+1] being self.board[rank][file].                     *)
(***************************************************************************)
EXTENDS Integers, Sequences, FiniteSets, TLC

VARIABLES board, is_white_turn, ep_file, moves, j, pc, fen, gameNo, last,
          initial_board, board2, j2, fen2,
          uci_pc, uci_moves, side_to_move, tokens, uci_moves_file,
          output_file, sent, run, lines_read, gos, bestmoves,
          timeout, written

\* board, is_white_turn, ep_file: the fields of the Board of the game that
\* is replayed; initial_board: the rows of the module's list INITIAL_BOARD;
\* board2, j2, fen2: the Board, loop index and string of the key positions
game_vars == <<board, is_white_turn, ep_file, moves, j, pc, fen, gameNo, last,
               initial_board, board2, j2, fen2>>

\* uci_moves, side_to_move, tokens: the locals moves, side_to_move and
\* tokens of main in chess-uci.py; uci_moves_file and output_file: the files
\* uci-moves.tex and engine-output.dat of the work directory (<<>> for no
\* file, <<lines>> for a file); uci_pc: where main stands.
\* sent: the lines written to stdout since the latest line was read;
\* timeout: the local timeout of main, <<>> before it is assigned, else
\* the number of seconds as the fraction <<numerator, denominator>>.
\* run: how the latest run of pdflatex ended; written: what that run wrote
\* to engine-output.dat (<<>> for nothing); lines_read, gos, bestmoves:
\* the numbers of lines read, of go commands among them, and of bestmove
\* lines sent.
uci_vars == <<uci_pc, uci_moves, side_to_move, tokens, uci_moves_file,
              output_file, sent, run, lines_read, gos, bestmoves,
              timeout, written>>

vars == <<game_vars, uci_vars>>

(***************************************************************************)
(* Bounds of the model.                                                    *)
(***************************************************************************)
\* longest move list built freely from FreeTokens
MaxFree == 3
\* number of games replayed one after the other
MaxGames == 2
\* number of lines read from stdin
MaxLines == 3

(***************************************************************************)
(* Characters: ord, chr, upper, lower, isupper, int, str.                  *)
(***************************************************************************)
AsciiTable ==
    { <<"#", 35>>, <<"+", 43>>, <<"-", 45>>, <<".", 46>>, <<"/", 47>>,
      <<"0", 48>>, <<"1", 49>>, <<"2", 50>>, <<"3", 51>>, <<"4", 52>>,
      <<"5", 53>>, <<"6", 54>>, <<"7", 55>>, <<"8", 56>>, <<"9", 57>>,
      <<"=", 61>>,
      <<"B", 66>>, <<"K", 75>>, <<"N", 78>>, <<"O", 79>>, <<"P", 80>>,
      <<"Q", 81>>, <<"R", 82>>,
      <<"a", 97>>, <<"b", 98>>, <<"c", 99>>, <<"d", 100>>, <<"e", 101>>,
      <<"f", 102>>, <<"g", 103>>, <<"h", 104>>, <<"k", 107>>, <<"n", 110>>,
      <<"o", 111>>, <<"p", 112>>, <<"q", 113>>, <<"r", 114>>, <<"x", 120>> }

ord(c) == (CHOOSE p \in AsciiTable : p[1] = c)[2]

chr(n) == (CHOOSE p \in AsciiTable : p[2] = n)[1]

isupper(c) == ord(c) >= 65 /\ ord(c) <= 90

islower(c) == ord(c) >= 97 /\ ord(c) <= 122

upper(c) == IF islower(c) THEN chr(ord(c) - 32) ELSE c

lower(c) == IF isupper(c) THEN chr(ord(c) + 32) ELSE c

\* int() of a one-digit string
int(c) == ord(c) - 48

\* str() of an integer 0..9
str(n) == <<chr(48 + n)>>

abs(n) == IF n < 0 THEN 0 - n ELSE n

max(a, b) == IF a >= b THEN a ELSE b

\* the Python string a sequence of characters stands for
RECURSIVE Str(_)
Str(s) == IF s = <<>> THEN "" ELSE Head(s) \o Str(Tail(s))

(***************************************************************************)
(* The board.                                                              *)
(***************************************************************************)
INITIAL_BOARD ==
    << <<"R", "N", "B", "Q", "K", "B", "N", "R">>,
       <<"P", "P", "P", "P", "P", "P", "P", "P">>,
       <<".", ".", ".", ".", ".", ".", ".", ".">>,
       <<".", ".", ".", ".", ".", ".", ".", ".">>,
       <<".", ".", ".", ".", ".", ".", ".", ".">>,
       <<".", ".", ".", ".", ".", ".", ".", ".">>,
       <<"p", "p", "p", "p", "p", "p", "p", "p">>,
       <<"r", "n", "b", "q", "k", "b", "n", "r">> >>

\* reset with the rows taken in the opposite order (rank 0 = rank 8)
reset_flipped == [board |-> [r \in 1..8 |-> INITIAL_BOARD[9 - r]],
                  is_white_turn |-> TRUE,
                  ep_file |-> -1]

\* a reset that keeps the row lists of INITIAL_BOARD:
\* [row for row in INITIAL_BOARD]
shared_rows_no_copy == 1..8

\* line 32, row[:]: every row of a Board is a new list, so the set of the
\* rows (1..8) of a Board that are the very list objects of INITIAL_BOARD
\* is empty
shared_rows == {}

\* Board.reset: the fields of a fresh Board, its rows copied from the list
\* INITIAL_BOARD as it is when reset is called
reset == [board |-> [r \in 1..8 |-> initial_board[r]],
          is_white_turn |-> TRUE,
          ep_file |-> -1]

\* Board.get: piece at (file 0-7, rank 0-7)
get(brd, file, rank) == brd[rank + 1][file + 1]

\* Board.set
set(brd, file, rank, piece) ==
    [brd EXCEPT ![rank + 1] = [@ EXCEPT ![file + 1] = piece]]

\* line 41, self.board[rank][file] = piece, seen from another holder of row
\* lists: after a Board's rows have become `rows`, the holder whose rows
\* were `held` sees the new content of every row list it shares
seen_after(held, rows) ==
    [r \in 1..8 |-> IF r \in shared_rows THEN rows[r] ELSE held[r]]

\* _do_move with the bug of copying the piece: the source square is kept
_do_move_keeps_source(brd, ff, fr, tf, tr) ==
    LET piece == get(brd, ff, fr)
    IN  set(brd, tf, tr, piece)

\* Board._do_move
_do_move(brd, ff, fr, tf, tr) ==
    LET piece == get(brd, ff, fr)
    IN  set(set(brd, tf, tr, piece), ff, fr, ".")

\* the loop of Board.path_clear, from step i
RECURSIVE path_loop(_, _, _, _, _, _, _)
path_loop(brd, ff, fr, sf, sr, i, steps) ==
    IF i >= steps THEN TRUE
    ELSE IF get(brd, ff + i * sf, fr + i * sr) # "." THEN FALSE
    ELSE path_loop(brd, ff, fr, sf, sr, i + 1, steps)

\* path_clear with a loop that starts at the second square of the path:
\* range(2, steps)
path_clear_from_second(brd, ff, fr, tf, tr) ==
    LET df == tf - ff
        dr == tr - fr
        steps == max(abs(df), abs(dr))
        sf == IF df # 0 THEN (IF df > 0 THEN 1 ELSE -1) ELSE 0
        sr == IF dr # 0 THEN (IF dr > 0 THEN 1 ELSE -1) ELSE 0
    IN  IF steps <= 1 THEN TRUE
        ELSE path_loop(brd, ff, fr, sf, sr, 2, steps)

\* Board.path_clear
path_clear(brd, ff, fr, tf, tr) ==
    LET df == tf - ff
        dr == tr - fr
        steps == max(abs(df), abs(dr))
        sf == IF df # 0 THEN (IF df > 0 THEN 1 ELSE -1) ELSE 0
        sr == IF dr # 0 THEN (IF dr > 0 THEN 1 ELSE -1) ELSE 0
    IN  IF steps <= 1 THEN TRUE
        ELSE path_loop(brd, ff, fr, sf, sr, 1, steps)

\* the pawn branch without the test of the square the double push skips
can_reach_pawn_jumps(brd, ep, ff, fr, tf, tr, piece) ==
    LET df == tf - ff
        dr == tr - fr
        direction == IF isupper(piece) THEN 1 ELSE -1
        start_rank == IF isupper(piece) THEN 1 ELSE 6
        ep_rank == IF isupper(piece) THEN 5 ELSE 2
    IN  \/ /\ df = 0
           /\ \/ dr = direction /\ get(brd, tf, tr) = "."
              \/ /\ dr = 2 * direction
                 /\ fr = start_rank
                 /\ get(brd, tf, tr) = "."
        \/ /\ abs(df) = 1
           /\ dr = direction
           /\ \/ get(brd, tf, tr) # "."
              \/ tf = ep /\ tr = ep_rank

\* Board.can_reach, the pawn branch
can_reach_pawn(brd, ep, ff, fr, tf, tr, piece) ==
    LET df == tf - ff
        dr == tr - fr
        direction == IF isupper(piece) THEN 1 ELSE -1
        start_rank == IF isupper(piece) THEN 1 ELSE 6
        ep_rank == IF isupper(piece) THEN 5 ELSE 2
    IN  \/ /\ df = 0
           /\ \/ dr = direction /\ get(brd, tf, tr) = "."
              \/ /\ dr = 2 * direction
                 /\ fr = start_rank
                 /\ get(brd, tf, fr + direction) = "."
                 /\ get(brd, tf, tr) = "."
        \/ /\ abs(df) = 1
           /\ dr = direction
           /\ \/ get(brd, tf, tr) # "."
              \/ tf = ep /\ tr = ep_rank

\* Board.can_reach
can_reach(brd, ep, ff, fr, tf, tr, piece) ==
    LET p == upper(piece)
        df == tf - ff
        dr == tr - fr
    IN  CASE p = "P" -> can_reach_pawn(brd, ep, ff, fr, tf, tr, piece)
          [] p = "N" -> <<abs(df), abs(dr)>> \in {<<1, 2>>, <<2, 1>>}
          [] p = "K" -> abs(df) <= 1 /\ abs(dr) <= 1
          [] p = "R" -> (df = 0 \/ dr = 0) /\ path_clear(brd, ff, fr, tf, tr)
          [] p = "B" -> abs(df) = abs(dr) /\ df # 0
                        /\ path_clear(brd, ff, fr, tf, tr)
          [] p = "Q" -> IF df = 0 \/ dr = 0
                        THEN path_clear(brd, ff, fr, tf, tr)
                        ELSE IF abs(df) = abs(dr)
                        THEN path_clear(brd, ff, fr, tf, tr)
                        ELSE FALSE
          [] OTHER -> FALSE

(***************************************************************************)
(* Board.apply_san: parsing of the token.                                  *)
(***************************************************************************)
\* str.rstrip(chars)
RECURSIVE rstrip(_, _)
rstrip(s, chars) ==
    IF s # <<>> /\ s[Len(s)] \in chars
    THEN rstrip(SubSeq(s, 1, Len(s) - 1), chars)
    ELSE s

\* str.index(c): 0-based position of the first c (c occurs in s)
index(s, c) == (CHOOSE i \in 1..Len(s) : s[i] = c /\ \A k \in 1..(i - 1) : s[k] # c) - 1

\* c in s, for a one-character c
contains(s, c) == \E i \in 1..Len(s) : s[i] = c

\* str.replace(c, "")
remove(s, c) == SelectSeq(s, LAMBDA ch : ch # c)

KINGSIDE == { <<"O", "-", "O">>, <<"0", "-", "0">> }

QUEENSIDE == { <<"O", "-", "O", "-", "O">>, <<"0", "-", "0", "-", "0">> }

\* lines 130-168: promotion suffix, target square, piece and disambiguation
\* of a token that is no castling literal (already stripped of "+" and "#").
\* An absent promo, disambig_file or disambig_rank (None) is <<>>.
parse_san(stripped, is_white) ==
    LET has_promo == contains(stripped, "=")
        idx == index(stripped, "=")
        promo == IF has_promo THEN <<stripped[idx + 2]>> ELSE <<>>
        san1 == IF has_promo THEN SubSeq(stripped, 1, idx) ELSE stripped
        target_file == ord(san1[Len(san1) - 1]) - ord("a")
        target_rank == int(san1[Len(san1)]) - 1
        san2 == remove(SubSeq(san1, 1, Len(san1) - 2), "x")
        san3 == Tail(san2)
    IN  IF san2 = <<>>
        THEN [promo |-> promo, target_file |-> target_file,
              target_rank |-> target_rank,
              piece_char |-> IF is_white THEN "P" ELSE "p",
              disambig_file |-> <<>>, disambig_rank |-> <<>>]
        ELSE IF san2[1] \in {"K", "Q", "R", "B", "N"}
        THEN [promo |-> promo, target_file |-> target_file,
              target_rank |-> target_rank,
              piece_char |-> IF is_white THEN san2[1] ELSE lower(san2[1]),
              disambig_file |->
                  IF Len(san3) >= 2 THEN <<ord(san3[1]) - ord("a")>>
                  ELSE IF Len(san3) = 1 /\ ord("a") <= ord(san3[1])
                                        /\ ord(san3[1]) <= ord("h")
                  THEN <<ord(san3[1]) - ord("a")>>
                  ELSE <<>>,
              disambig_rank |->
                  IF Len(san3) >= 2 THEN <<int(san3[2]) - 1>>
                  ELSE IF Len(san3) = 1 /\ ~(ord("a") <= ord(san3[1])
                                             /\ ord(san3[1]) <= ord("h"))
                  THEN <<int(san3[1]) - 1>>
                  ELSE <<>>]
        ELSE [promo |-> promo, target_file |-> target_file,
              target_rank |-> target_rank,
              piece_char |-> IF is_white THEN "P" ELSE "p",
              disambig_file |-> <<ord(san2[1]) - ord("a")>>,
              disambig_rank |-> <<>>]

(***************************************************************************)
(* Board.apply_san: the scan for the source square.                        *)
(***************************************************************************)
\* lines 174-181: the square (file, rank) passes the filters of the scan
matches(brd, ep, m, file, rank) ==
    LET piece == get(brd, file, rank)
    IN  /\ piece = m.piece_char
        /\ (m.disambig_file = <<>> \/ file = m.disambig_file[1])
        /\ (m.disambig_rank = <<>> \/ rank = m.disambig_rank[1])
        /\ can_reach(brd, ep, file, rank, m.target_file, m.target_rank, piece)

\* square number i of the scan: rank 0..7 outer loop, file 0..7 inner loop
scan_file(i) == i % 8

scan_rank(i) == i \div 8

\* lines 171-186: the scan from square number i on; <<>> when nothing is
\* found, else <<from_file, from_rank>>
RECURSIVE find_source(_, _, _, _)
find_source(brd, ep, m, i) ==
    IF i >= 64 THEN <<>>
    ELSE IF matches(brd, ep, m, scan_file(i), scan_rank(i))
    THEN <<scan_file(i), scan_rank(i)>>
    ELSE find_source(brd, ep, m, i + 1)

\* lines 171-186: the number of squares the scan from square number i on
\* looks at before it ends (break on a match, or both loops exhausted)
RECURSIVE scanned(_, _, _, _)
scanned(brd, ep, m, i) ==
    IF i >= 64 THEN 0
    ELSE IF matches(brd, ep, m, scan_file(i), scan_rank(i))
    THEN 1
    ELSE 1 + scanned(brd, ep, m, i + 1)

\* what apply_san records of a call that moved nothing by the scan
NoInfo == [from_file |-> -1, from_rank |-> -1, target_file |-> -1,
           target_rank |-> -1, piece_char |-> ".", promo |-> <<>>,
           is_ep |-> FALSE, new_ep_file |-> -1]

\* apply_castle with the destinations of king and rook exchanged
apply_castle_swapped(self, king_to, rook_from, rook_to) ==
    LET rank == IF self.is_white_turn THEN 0 ELSE 7
    IN  [board |-> _do_move(_do_move(self.board, 4, rank, rook_to, rank),
                            rook_from, rank, king_to, rank),
         ep_file |-> -1,
         is_white_turn |-> ~self.is_white_turn,
         kind |-> "castle", info |-> NoInfo]

\* apply_castle with the bug of returning before the side to move is flipped
apply_castle_keeps_turn(self, king_to, rook_from, rook_to) ==
    LET rank == IF self.is_white_turn THEN 0 ELSE 7
    IN  [board |-> _do_move(_do_move(self.board, 4, rank, king_to, rank),
                            rook_from, rank, rook_to, rank),
         ep_file |-> -1,
         is_white_turn |-> self.is_white_turn,
         kind |-> "castle", info |-> NoInfo]

\* lines 115-120 and 123-128: castling on the home rank of the side to move,
\* the king from file 4 to king_to, the rook from rook_from to rook_to
apply_castle(self, king_to, rook_from, rook_to) ==
    LET rank == IF self.is_white_turn THEN 0 ELSE 7
    IN  [board |-> _do_move(_do_move(self.board, 4, rank, king_to, rank),
                            rook_from, rank, rook_to, rank),
         ep_file |-> -1,
         is_white_turn |-> ~self.is_white_turn,
         kind |-> "castle", info |-> NoInfo]

\* apply_failed with the bug of returning before the side to move is flipped
apply_failed_keeps_turn(self, m) ==
    [board |-> self.board,
     ep_file |-> self.ep_file,
     is_white_turn |-> self.is_white_turn,
     kind |-> "failed",
     info |-> [NoInfo EXCEPT !.target_file = m.target_file,
                             !.target_rank = m.target_rank,
                             !.piece_char = m.piece_char,
                             !.promo = m.promo]]

\* lines 188-191: nothing found by the scan
apply_failed(self, m) ==
    [board |-> self.board,
     ep_file |-> self.ep_file,
     is_white_turn |-> ~self.is_white_turn,
     kind |-> "failed",
     info |-> [NoInfo EXCEPT !.target_file = m.target_file,
                             !.target_rank = m.target_rank,
                             !.piece_char = m.piece_char,
                             !.promo = m.promo]]

\* lines 194-197: is_ep
detect_ep(brd, m, from_file) ==
    /\ upper(m.piece_char) = "P"
    /\ from_file # m.target_file
    /\ get(brd, m.target_file, m.target_rank) = "."

\* lines 200-202: new_ep_file
detect_double_push(m, from_rank) ==
    IF upper(m.piece_char) = "P" /\ abs(m.target_rank - from_rank) = 2
    THEN m.target_file
    ELSE -1

\* remove_captured with the bug of clearing the square on the target rank
remove_captured_on_target_rank(brd, is_ep, m, from_rank) ==
    IF is_ep THEN set(brd, m.target_file, m.target_rank, ".") ELSE brd

\* lines 208-209: the pawn captured en passant is taken off
remove_captured(brd, is_ep, m, from_rank) ==
    IF is_ep THEN set(brd, m.target_file, from_rank, ".") ELSE brd

\* promote with the bug of ignoring the colour of the moving side
promote_always_upper(brd, is_white, m) ==
    IF m.promo # <<>>
    THEN set(brd, m.target_file, m.target_rank, upper(m.promo[1]))
    ELSE brd

\* lines 212-214: promotion
promote(brd, is_white, m) ==
    IF m.promo # <<>>
    THEN set(brd, m.target_file, m.target_rank,
             IF is_white THEN upper(m.promo[1]) ELSE lower(m.promo[1]))
    ELSE brd

\* lines 193-217: the move found by the scan is executed
apply_move(self, m, from_file, from_rank) ==
    LET is_ep == detect_ep(self.board, m, from_file)
        new_ep_file == detect_double_push(m, from_rank)
        moved == _do_move(self.board, from_file, from_rank,
                          m.target_file, m.target_rank)
        taken == remove_captured(moved, is_ep, m, from_rank)
    IN  [board |-> promote(taken, self.is_white_turn, m),
         ep_file |-> new_ep_file,
         is_white_turn |-> ~self.is_white_turn,
         kind |-> "moved",
         info |-> [from_file |-> from_file, from_rank |-> from_rank,
                   target_file |-> m.target_file,
                   target_rank |-> m.target_rank,
                   piece_char |-> m.piece_char, promo |-> m.promo,
                   is_ep |-> is_ep, new_ep_file |-> new_ep_file]]

\* lines 106-217: Board.apply_san on the Board fields self = [board,
\* is_white_turn, ep_file].  The result holds the new fields and, for the
\* record, what the call did: kind is "castle", "failed" or "moved", and
\* info the parsed token, the source square, is_ep and new_ep_file.
apply_san(self, san0) ==
    LET san == rstrip(san0, {"+", "#"})
        m == parse_san(san, self.is_white_turn)
        src == find_source(self.board, self.ep_file, m, 0)
    IN  IF san \in KINGSIDE THEN apply_castle(self, 6, 7, 5)
        ELSE IF san \in QUEENSIDE THEN apply_castle(self, 2, 0, 3)
        ELSE IF src = <<>> THEN apply_failed(self, m)
        ELSE apply_move(self, m, src[1], src[2])

(***************************************************************************)
(* Board.to_fen.                                                           *)
(***************************************************************************)
\* fen_row with the bug of dropping the empty squares that end a rank
RECURSIVE fen_row_no_final_flush(_, _, _, _, _)
fen_row_no_final_flush(brd, rank, file, empty, row) ==
    IF file >= 8
    THEN row
    ELSE LET piece == get(brd, file, rank)
         IN  IF piece = "."
             THEN fen_row_no_final_flush(brd, rank, file + 1, empty + 1, row)
             ELSE fen_row_no_final_flush(brd, rank, file + 1, 0,
                          (IF empty > 0 THEN row \o str(empty) ELSE row)
                              \o <<piece>>)

\* lines 229-241: the inner loop over the files of one rank, from `file` on,
\* with the run of empty squares and the row built so far
RECURSIVE fen_row(_, _, _, _, _)
fen_row(brd, rank, file, empty, row) ==
    IF file >= 8
    THEN (IF empty > 0 THEN row \o str(empty) ELSE row)
    ELSE LET piece == get(brd, file, rank)
         IN  IF piece = "."
             THEN fen_row(brd, rank, file + 1, empty + 1, row)
             ELSE fen_row(brd, rank, file + 1, 0,
                          (IF empty > 0 THEN row \o str(empty) ELSE row)
                              \o <<piece>>)

\* "/".join(rows)
RECURSIVE join(_, _)
join(sep, rows) ==
    IF rows = <<>> THEN <<>>
    ELSE IF Len(rows) = 1 THEN rows[1]
    ELSE rows[1] \o sep \o join(sep, Tail(rows))

\* lines 227-242: the rows in the order they are appended, rank 7 down to 0
fen_rows(brd) == [k \in 1..8 |-> fen_row(brd, 8 - k, 0, 0, <<>>)]

\* Board.to_fen
to_fen(brd) == join(<<"/">>, fen_rows(brd))

(***************************************************************************)
(* The move lists replayed.                                                *)
(***************************************************************************)
\* tokens the free move lists are built from
FreeTokens ==
    { <<"e", "4">>, <<"e", "5">>, <<"d", "5">>,
      <<"e", "x", "d", "5">>, <<"N", "f", "3">>, <<"N", "c", "6">>,
      <<"B", "b", "5">>, <<"O", "-", "O">>, <<"Q", "h", "4">>,
      <<"K", "e", "1">> }

\* every move list of at most MaxFree free tokens
FreeMoves == UNION { [1..n -> FreeTokens] : n \in 0..MaxFree }

SpecExample ==
    << <<"e", "4">>, <<"e", "5">>, <<"N", "f", "3">>, <<"N", "c", "6">>,
       <<"B", "b", "5">> >>

RuyLopez ==
    << <<"e", "4">>, <<"e", "5">>, <<"N", "f", "3">>, <<"N", "c", "6">>,
       <<"B", "b", "5">>, <<"a", "6">>, <<"B", "a", "4">>, <<"N", "f", "6">>,
       <<"O", "-", "O">>, <<"B", "e", "7">>, <<"R", "e", "1">>, <<"b", "5">>,
       <<"B", "b", "3">>, <<"d", "6">>, <<"c", "3">>, <<"0", "-", "0">> >>

ItalianGame ==
    << <<"e", "4">>, <<"e", "5">>, <<"N", "f", "3">>, <<"N", "c", "6">>,
       <<"B", "c", "4">>, <<"B", "c", "5">>, <<"0", "-", "0">>, <<"N", "f", "6">>,
       <<"d", "3">>, <<"O", "-", "O">> >>

QueensideCastles ==
    << <<"d", "4">>, <<"d", "5">>, <<"N", "c", "3">>, <<"N", "c", "6">>,
       <<"B", "f", "4">>, <<"B", "f", "5">>, <<"Q", "d", "2">>, <<"Q", "d", "7">>,
       <<"O", "-", "O", "-", "O">>, <<"0", "-", "0", "-", "0">> >>

EnPassantWhite ==
    << <<"e", "4">>, <<"a", "6">>, <<"e", "5">>, <<"d", "5">>,
       <<"e", "x", "d", "6">>, <<"c", "x", "d", "6">> >>

EnPassantBlack ==
    << <<"a", "3">>, <<"e", "5">>, <<"a", "4">>, <<"e", "4">>,
       <<"d", "4">>, <<"e", "x", "d", "3">> >>

PromotionWhite ==
    << <<"a", "4">>, <<"b", "5">>, <<"a", "x", "b", "5">>, <<"a", "6">>,
       <<"b", "x", "a", "6">>, <<"B", "b", "7">>, <<"a", "x", "b", "7">>, <<"N", "c", "6">>,
       <<"b", "x", "a", "8", "=", "Q", "+">> >>

PromotionBlack ==
    << <<"g", "4">>, <<"h", "5">>, <<"a", "3">>, <<"h", "x", "g", "4">>,
       <<"a", "4">>, <<"g", "3">>, <<"a", "5">>, <<"g", "x", "h", "2">>,
       <<"a", "6">>, <<"h", "x", "g", "1", "=", "N">> >>

Ambiguous ==
    << <<"d", "3">>, <<"d", "6">>, <<"N", "f", "3">>, <<"N", "f", "6">>,
       <<"N", "d", "2">>, <<"N", "d", "7">> >>

Disambiguated ==
    << <<"d", "3">>, <<"d", "6">>, <<"N", "f", "3">>, <<"N", "f", "6">>,
       <<"N", "3", "d", "2">>, <<"N", "b", "8", "d", "7">>, <<"N", "b", "c", "3">>, <<"N", "b", "6">> >>

SkippedPlies ==
    << <<"d", "4">>, <<"e", "5">>, <<"Q", "h", "5">>, <<"e", "x", "d", "4">>,
       <<"Q", "h", "5">>, <<"c", "5">>, <<"Q", "h", "5">>, <<"c", "4">>,
       <<"Q", "h", "5">>, <<"d", "5">>, <<"Q", "h", "5">>, <<"d", "3">> >>

\* a capture token whose destination holds a pawn of the side to move
OwnCapture == << <<"d", "3">>, <<"e", "5">>, <<"e", "x", "d", "3">> >>

\* two-rank advances of pawns that have a knight on the square before them
BlockedPush ==
    << <<"N", "f", "3">>, <<"N", "c", "6">>, <<"f", "4">>, <<"c", "5">> >>

Games ==
    { SpecExample,
      RuyLopez,
      ItalianGame,
      QueensideCastles,
      EnPassantWhite,
      EnPassantBlack,
      PromotionWhite,
      PromotionBlack,
      Ambiguous,
      Disambiguated,
      SkippedPlies,
      OwnCapture,
      BlockedPush }

\* the move lists of the games a PGN file may hold
GameInputs == Games \cup FreeMoves

(***************************************************************************)
(* chess-uci.py: strings.                                                  *)
(***************************************************************************)
\* the characters str.strip() and str.split() take for white space
Whitespace == {" ", "\t", "\n", "\r"}

\* str.lstrip(chars)
RECURSIVE lstrip(_, _)
lstrip(s, chars) ==
    IF s # <<>> /\ Head(s) \in chars THEN lstrip(Tail(s), chars) ELSE s

\* str.strip()
strip(s) == lstrip(rstrip(s, Whitespace), Whitespace)

\* str.split(): the words between runs of white space; word is the word
\* being read, out the words read
RECURSIVE split_loop(_, _, _)
split_loop(s, word, out) ==
    IF s = <<>>
    THEN (IF word = <<>> THEN out ELSE Append(out, word))
    ELSE IF Head(s) \in Whitespace
    THEN split_loop(Tail(s), <<>>,
                    IF word = <<>> THEN out ELSE Append(out, word))
    ELSE split_loop(Tail(s), Append(word, Head(s)), out)

split(s) == split_loop(s, <<>>, <<>>)

\* str.startswith(prefix)
startswith(s, prefix) ==
    Len(s) >= Len(prefix) /\ SubSeq(s, 1, Len(prefix)) = prefix

Digits == {"0", "1", "2", "3", "4", "5", "6", "7", "8", "9"}

\* str.isdigit()
isdigit(s) == s # <<>> /\ \A i \in 1..Len(s) : s[i] \in Digits

\* the number a string of digits stands for, after the digits of value acc
RECURSIVE digits_value(_, _)
digits_value(s, acc) ==
    IF s = <<>> THEN acc ELSE digits_value(Tail(s), 10 * acc + int(Head(s)))

\* int(s) for a string: <<n>> for the integer n, <<>> when int raises
\* ValueError.  int accepts white space around, one sign, and digits.
int_str(s) ==
    LET t == strip(s)
        signed == t # <<>> /\ Head(t) \in {"+", "-"}
        digits == IF signed THEN Tail(t) ELSE t
    IN  IF ~isdigit(digits) THEN <<>>
        ELSE IF signed /\ Head(t) = "-"
        THEN <<0 - digits_value(digits, 0)>>
        ELSE <<digits_value(digits, 0)>>

\* the string literals of chess-uci.py
UCI ==
    <<"u", "c", "i">>

ISREADY ==
    <<"i", "s", "r", "e", "a", "d", "y">>

UCINEWGAME ==
    <<"u", "c", "i", "n", "e", "w", "g", "a", "m", "e">>

POSITION ==
    <<"p", "o", "s", "i", "t", "i", "o", "n">>

GO ==
    <<"g", "o">>

QUIT ==
    <<"q", "u", "i", "t">>

STARTPOS ==
    <<"s", "t", "a", "r", "t", "p", "o", "s">>

MOVES ==
    <<"m", "o", "v", "e", "s">>

ID_NAME ==
    <<"i", "d", " ", "n", "a", "m", "e", " ", "T", "e", "X", " ", "C", "h",
      "e", "s", "s", " ", "E", "n", "g", "i", "n", "e">>

ID_AUTHOR ==
    <<"i", "d", " ", "a", "u", "t", "h", "o", "r", " ", "p", "d", "f", "L",
      "a", "T", "e", "X">>

UCIOK ==
    <<"u", "c", "i", "o", "k">>

READYOK ==
    <<"r", "e", "a", "d", "y", "o", "k">>

BESTMOVE ==
    <<"b", "e", "s", "t", "m", "o", "v", "e", " ">>

ENGINEMOVE ==
    <<"E", "N", "G", "I", "N", "E", "M", "O", "V", "E", ":">>

NONE ==
    <<"n", "o", "n", "e">>

NULLMOVE ==
    <<"0", "0", "0", "0">>

REPLAYMOVE ==
    <<"\\", "r", "e", "p", "l", "a", "y", "m", "o", "v", "e", "{">>

(***************************************************************************)
(* chess-uci.py: compute_timeout (the go parameters) and generate_move     *)
(* (the reading of engine-output.dat).                                     *)
(***************************************************************************)
\* params[key] = value
put(params, key, value) ==
    [k \in (DOMAIN params) \cup {key} |-> IF k = key THEN value ELSE params[k]]

\* lines 102-110: the loop over the tokens of a go line from index i on
\* (tokens[i] of the source is toks[i + 1]).  raised: int() raised
\* ValueError, which nothing catches.
RECURSIVE params_loop(_, _, _)
params_loop(toks, i, params) ==
    IF i >= Len(toks) THEN [raised |-> FALSE, params |-> params]
    ELSE IF i + 1 < Len(toks) /\ isdigit(lstrip(toks[i + 2], {"-"}))
    THEN LET value == int_str(toks[i + 2])
         IN  IF value = <<>> THEN [raised |-> TRUE, params |-> params]
             ELSE params_loop(toks, i + 2, put(params, toks[i + 1], value[1]))
    ELSE params_loop(toks, i + 1, params)

\* lines 102-110: params of compute_timeout
go_params(toks) == params_loop(toks, 1, <<>>)

\* params.get(key, None): <<>> for None, else <<value>>
params_get(params, key) ==
    IF key \in DOMAIN params THEN <<params[key]>> ELSE <<>>

WTIME == <<"w", "t", "i", "m", "e">>

WINC == <<"w", "i", "n", "c">>

BTIME == <<"b", "t", "i", "m", "e">>

BINC == <<"b", "i", "n", "c">>

MOVESTOGO == <<"m", "o", "v", "e", "s", "t", "o", "g", "o">>

\* The floats of compute_timeout are fractions <<numerator, denominator>>
\* with a positive denominator, in lowest terms.
RECURSIVE gcd(_, _)
gcd(a, b) == IF b = 0 THEN a ELSE gcd(b, a % b)

\* the fraction n / d (d > 0) in lowest terms
frac(n, d) ==
    LET g == gcd(abs(n), d)
    IN  IF g = 0 THEN <<0, 1>> ELSE <<n \div g, d \div g>>

\* a < b
flt(a, b) == a[1] * b[2] < b[1] * a[2]

\* a <= b
fle(a, b) == a[1] * b[2] <= b[1] * a[2]

\* min(a, b) and max(a, b) of Python: the first argument unless the second
\* is smaller (larger)
fmin(a, b) == IF flt(b, a) THEN b ELSE a

fmax(a, b) == IF flt(a, b) THEN b ELSE a

\* a + b, a * b, a / n for an integer n >= 1
fadd(a, b) == frac(a[1] * b[2] + b[1] * a[2], a[2] * b[2])

fmul(a, b) == frac(a[1] * b[1], a[2] * b[2])

fdiv(a, n) == frac(a[1], a[2] * n)

\* lines 128-135: the branch of a go line with movestogo
timeout_movestogo(remaining_s, inc_s, movestogo) ==
    LET moves_to_go == IF movestogo < 1 THEN 1 ELSE movestogo
        budget == fadd(fdiv(remaining_s, moves_to_go), inc_s)
        max_allowed == fmul(remaining_s, frac(80, 100))
    IN  fmax(fmin(fmin(budget, max_allowed), frac(30, 1)), frac(2, 1))

\* lines 136-144: the branch without movestogo
timeout_sudden_death(remaining_s) ==
    LET max_per_move == frac(15, 1)
        max_allowed == fmul(remaining_s, frac(50, 100))
    IN  fmax(fmin(fmin(max_per_move, max_allowed), frac(30, 1)),
             fmin(frac(5, 1), fmul(remaining_s, frac(80, 100))))

\* lines 89-148: compute_timeout, for tokens on which int() does not raise
compute_timeout(toks, side) ==
    LET params == go_params(toks).params
        remaining_ms == IF side = "w" THEN params_get(params, WTIME)
                        ELSE params_get(params, BTIME)
        inc == IF side = "w" THEN params_get(params, WINC)
               ELSE params_get(params, BINC)
        inc_ms == IF inc = <<>> THEN 0 ELSE inc[1]
        moves_to_go == params_get(params, MOVESTOGO)
    IN  IF remaining_ms = <<>> THEN frac(30, 1)
        ELSE LET remaining_s == fmax(frac(remaining_ms[1], 1000), frac(0, 1))
                 inc_s == frac(inc_ms, 1000)
             IN  IF moves_to_go # <<>>
                 THEN timeout_movestogo(remaining_s, inc_s, moves_to_go[1])
                 ELSE timeout_sudden_death(remaining_s)

\* lines 160-164: os.remove(output_path), FileNotFoundError passed over:
\* engine-output.dat afterwards
os_remove_skipped(file) == file

os_remove(file) == <<>>

\* lines 192-200: the loop over the lines of engine-output.dat from line k on
RECURSIVE read_loop(_, _)
read_loop(lines, k) ==
    IF k > Len(lines) THEN NULLMOVE
    ELSE LET line == strip(lines[k])
         IN  IF startswith(line, ENGINEMOVE)
             THEN LET mv == SubSeq(line, Len(ENGINEMOVE) + 1, Len(line))
                  IN  IF mv # <<>> /\ mv # NONE THEN mv ELSE NULLMOVE
             ELSE read_loop(lines, k + 1)

\* lines 189-204: what generate_move returns after pdflatex has returned;
\* file is <<>> when engine-output.dat does not exist
read_output(file) ==
    IF file = <<>> THEN NULLMOVE ELSE read_loop(file[1], 1)

\* lines 154-157: the lines written to uci-moves.tex
replay_lines(mvs) ==
    [i \in 1..Len(mvs) |-> REPLAYMOVE \o mvs[i] \o <<"}", "\n">>]

(***************************************************************************)
(* The command loop of chess-uci.py.                                       *)
(***************************************************************************)
\* the lines stdin may hold
InputLines ==
    {
      \* uci
      <<"u", "c", "i">>,
      \* isready
      <<"i", "s", "r", "e", "a", "d", "y">>,
      \* isready, with white space around
      <<" ", "i", "s", "r", "e", "a", "d", "y", " ">>,
      \* ucinewgame
      <<"u", "c", "i", "n", "e", "w", "g", "a", "m", "e">>,
      \* position startpos
      <<"p", "o", "s", "i", "t", "i", "o", "n", " ", "s", "t", "a", "r",
        "t", "p", "o", "s">>,
      \* position startpos moves e2e4
      <<"p", "o", "s", "i", "t", "i", "o", "n", " ", "s", "t", "a", "r",
        "t", "p", "o", "s", " ", "m", "o", "v", "e", "s", " ", "e", "2",
        "e", "4">>,
      \* position startpos moves e2e4 e7e5
      <<"p", "o", "s", "i", "t", "i", "o", "n", " ", "s", "t", "a", "r",
        "t", "p", "o", "s", " ", "m", "o", "v", "e", "s", " ", "e", "2",
        "e", "4", " ", "e", "7", "e", "5">>,
      \* position fen 8/8/8/8/8/8/8/8 moves e2e4
      <<"p", "o", "s", "i", "t", "i", "o", "n", " ", "f", "e", "n", " ",
        "8", "/", "8", "/", "8", "/", "8", "/", "8", "/", "8", "/", "8",
        "/", "8", " ", "m", "o", "v", "e", "s", " ", "e", "2", "e", "4">>,
      \* go
      <<"g", "o">>,
      \* go wtime 60000 btime 50000
      <<"g", "o", " ", "w", "t", "i", "m", "e", " ", "6", "0", "0", "0",
        "0", " ", "b", "t", "i", "m", "e", " ", "5", "0", "0", "0", "0">>,
      \* go wtime -5 btime 0
      <<"g", "o", " ", "w", "t", "i", "m", "e", " ", "-", "5", " ", "b",
        "t", "i", "m", "e", " ", "0">>,
      \* go wtime --5
      <<"g", "o", " ", "w", "t", "i", "m", "e", " ", "-", "-", "5">>,
      \* go wtime 3000 btime 2000
      <<"g", "o", " ", "w", "t", "i", "m", "e", " ", "3", "0", "0", "0",
        " ", "b", "t", "i", "m", "e", " ", "2", "0", "0", "0">>,
      \* go wtime 9000 btime 9000 winc 500 movestogo 3
      <<"g", "o", " ", "w", "t", "i", "m", "e", " ", "9", "0", "0", "0",
        " ", "b", "t", "i", "m", "e", " ", "9", "0", "0", "0", " ", "w",
        "i", "n", "c", " ", "5", "0", "0", " ", "m", "o", "v", "e", "s",
        "t", "o", "g", "o", " ", "3">>,
      \* go btime 1000 movestogo 10
      <<"g", "o", " ", "b", "t", "i", "m", "e", " ", "1", "0", "0", "0",
        " ", "m", "o", "v", "e", "s", "t", "o", "g", "o", " ", "1", "0">>,
      \* stop, a command main does not know
      <<"s", "t", "o", "p">>,
      \* a line of white space
      <<" ", " ">>,
      \* quit
      <<"q", "u", "i", "t">> }

\* the contents pdflatex may leave in engine-output.dat, as lists of lines
OutputContents ==
    {
      \* an empty file
      <<>>,
      \* ENGINEMOVE:e7e5
      <<
         <<"E", "N", "G", "I", "N", "E", "M", "O", "V", "E", ":", "e", "7",
           "e", "5", "\n">> >>,
      \* ENGINEMOVE:g8f6
      <<
         <<"E", "N", "G", "I", "N", "E", "M", "O", "V", "E", ":", "g", "8",
           "f", "6", "\n">> >>,
      \* ENGINEMOVE:none
      <<
         <<"E", "N", "G", "I", "N", "E", "M", "O", "V", "E", ":", "n", "o",
           "n", "e", "\n">> >>,
      \* ENGINEMOVE: with no move
      <<
         <<"E", "N", "G", "I", "N", "E", "M", "O", "V", "E", ":", "\n">> >>,
      \* no ENGINEMOVE line
      <<
         <<"E", "V", "A", "L", ":", "1", "2", "\n">> >>,
      \* the ENGINEMOVE line second, with white space around
      <<
         <<"E", "V", "A", "L", ":", "1", "2", "\n">>,
         <<" ", "E", "N", "G", "I", "N", "E", "M", "O", "V", "E", ":", "e",
           "7", "e", "5", " ", "\n">> >>,
      \* two ENGINEMOVE lines
      <<
         <<"E", "N", "G", "I", "N", "E", "M", "O", "V", "E", ":", "n", "o",
           "n", "e", "\n">>,
         <<"E", "N", "G", "I", "N", "E", "M", "O", "V", "E", ":", "e", "7",
           "e", "5", "\n">> >> }

\* engine-output.dat: no file, or a file
OutputFiles == {<<>>} \cup { <<c>> : c \in OutputContents }

\* the locals of main before the loop (lines 30-31), nothing read or sent,
\* uci-moves.tex not written, engine-output.dat as file
UciStart(file) ==
    /\ uci_pc = "read"
    /\ uci_moves = <<>>
    /\ side_to_move = "w"
    /\ tokens = <<>>
    /\ uci_moves_file = <<>>
    /\ output_file = file
    /\ sent = <<>>
    /\ run = "none"
    /\ lines_read = 0
    /\ gos = 0
    /\ bestmoves = 0
    /\ timeout = <<>>
    /\ written = <<>>

\* chess-uci.py is not running
UciOff ==
    /\ uci_pc = "off"
    /\ uci_moves = <<>>
    /\ side_to_move = "w"
    /\ tokens = <<>>
    /\ uci_moves_file = <<>>
    /\ output_file = <<>>
    /\ sent = <<>>
    /\ run = "none"
    /\ lines_read = 0
    /\ gos = 0
    /\ bestmoves = 0
    /\ timeout = <<>>
    /\ written = <<>>

(***************************************************************************)
(* The replay of generate_latex.                                           *)
(***************************************************************************)
NoLast == [kind |-> "none", san |-> <<>>, board |-> INITIAL_BOARD,
           is_white_turn |-> TRUE, ep_file |-> -1, info |-> NoInfo,
           before |-> [kind |-> "none", info |-> NoInfo]]

\* board2 before line 502 has made it
NoBoard == [board |-> <<>>, is_white_turn |-> TRUE, ep_file |-> -1]

Init ==
    /\ initial_board = INITIAL_BOARD
    /\ board = reset.board
    /\ is_white_turn = reset.is_white_turn
    /\ ep_file = reset.ep_file
    /\ moves \in GameInputs
    /\ j = 0
    /\ pc = "replay"
    /\ fen = <<>>
    /\ gameNo = 1
    /\ last = NoLast
    /\ board2 = NoBoard
    /\ j2 = 0
    /\ fen2 = <<>>
    /\ UciOff

\* a move loop that does not go on to the next token
ApplySan_same_token ==
    /\ pc = "replay"
    /\ j < Len(moves)
    /\ LET self == [board |-> board, is_white_turn |-> is_white_turn,
                    ep_file |-> ep_file]
           r == apply_san(self, moves[j + 1])
       IN  /\ board' = r.board
           /\ is_white_turn' = r.is_white_turn
           /\ ep_file' = r.ep_file
           /\ initial_board' = seen_after(initial_board, r.board)
           /\ last' = [kind |-> r.kind, san |-> moves[j + 1],
                       board |-> board, is_white_turn |-> is_white_turn,
                       ep_file |-> ep_file, info |-> r.info,
                       before |-> [kind |-> last.kind, info |-> last.info]]
    /\ UNCHANGED <<moves, j, pc, fen, gameNo, board2, j2, fen2>>
    /\ UNCHANGED uci_vars

\* lines 480-486: one iteration of the move loop, board.apply_san(move).
\* last records the call: the token, the fields before it (board,
\* is_white_turn, ep_file), what it did (kind, info), and what the call
\* before it did (before).
ApplySan ==
    /\ pc = "replay"
    /\ j < Len(moves)
    /\ LET self == [board |-> board, is_white_turn |-> is_white_turn,
                    ep_file |-> ep_file]
           r == apply_san(self, moves[j + 1])
       IN  /\ board' = r.board
           /\ is_white_turn' = r.is_white_turn
           /\ ep_file' = r.ep_file
           /\ initial_board' = seen_after(initial_board, r.board)
           /\ last' = [kind |-> r.kind, san |-> moves[j + 1],
                       board |-> board, is_white_turn |-> is_white_turn,
                       ep_file |-> ep_file, info |-> r.info,
                       before |-> [kind |-> last.kind, info |-> last.info]]
    /\ j' = j + 1
    /\ UNCHANGED <<moves, pc, fen, gameNo, board2, j2, fen2>>
    /\ UNCHANGED uci_vars

\* a to_fen that hands the move to the other side
FinalPosition_to_fen_writes ==
    /\ pc = "replay"
    /\ j = Len(moves)
    /\ fen' = to_fen(board)
    /\ is_white_turn' = ~is_white_turn
    /\ pc' = "final"
    /\ UNCHANGED <<board, ep_file, moves, j, gameNo, last,
                   initial_board, board2, j2, fen2>>
    /\ UNCHANGED uci_vars

\* lines 491-495: after the last move, fen = board.to_fen(); to_fen assigns
\* to locals only
FinalPosition ==
    /\ pc = "replay"
    /\ j = Len(moves)
    /\ fen' = to_fen(board)
    /\ pc' = "final"
    /\ UNCHANGED <<board, is_white_turn, ep_file, moves, j, gameNo, last,
                   initial_board, board2, j2, fen2>>
    /\ UNCHANGED uci_vars

\* line 503: step
step == max(2, Len(moves) \div 6)

\* lines 499-503: the game is one of `interesting` (a set that depends on
\* the other games and the players) and has more than 4 moves:
\* board2 = Board()
KeyPositions ==
    /\ pc = "final"
    /\ Len(moves) > 4
    /\ board2' = reset
    /\ j2' = 0
    /\ pc' = "key"
    /\ UNCHANGED <<board, is_white_turn, ep_file, moves, j, fen, gameNo, last,
                   initial_board, fen2>>
    /\ UNCHANGED uci_vars

\* lines 504-506: one iteration of the second loop, board2.apply_san(move);
\* j2 is the number of iterations done (the source's j of this loop, plus
\* one).  The condition of line 506 decides whether to_fen is called next.
ApplySan2 ==
    /\ pc = "key"
    /\ j2 < Len(moves)
    /\ LET r == apply_san(board2, moves[j2 + 1])
       IN  /\ board2' = [board |-> r.board,
                         is_white_turn |-> r.is_white_turn,
                         ep_file |-> r.ep_file]
           /\ board' = seen_after(board, r.board)
           /\ initial_board' = seen_after(initial_board, r.board)
    /\ j2' = j2 + 1
    /\ pc' = IF (j2 + 1) % step = 0 /\ j2 < Len(moves) - 1
             THEN "keyfen" ELSE "key"
    /\ UNCHANGED <<is_white_turn, ep_file, moves, j, fen, gameNo, last, fen2>>
    /\ UNCHANGED uci_vars

\* line 507: fen2 = board2.to_fen()
KeyFen ==
    /\ pc = "keyfen"
    /\ fen2' = to_fen(board2.board)
    /\ pc' = "key"
    /\ UNCHANGED <<board, is_white_turn, ep_file, moves, j, fen, gameNo, last,
                   initial_board, board2, j2>>
    /\ UNCHANGED uci_vars

\* the body of the game loop has come to its end (line 520)
GameOver == pc = "final" \/ (pc = "key" /\ j2 = Len(moves))

\* lines 464, 478-479: the next game of the list, replayed on a new Board().
\* The games after the first are drawn from Games.  The locals fen, board2
\* and fen2 are not read again before they are assigned.
NewGame ==
    /\ GameOver
    /\ gameNo < MaxGames
    /\ \E g \in Games :
          /\ moves' = g
          /\ board' = reset.board
          /\ is_white_turn' = reset.is_white_turn
          /\ ep_file' = reset.ep_file
    /\ j' = 0
    /\ pc' = "replay"
    /\ fen' = <<>>
    /\ gameNo' = gameNo + 1
    /\ last' = NoLast
    /\ board2' = NoBoard
    /\ j2' = 0
    /\ fen2' = <<>>
    /\ UNCHANGED initial_board
    /\ UNCHANGED uci_vars

\* line 524: the game just replayed was the last of the list
Finish ==
    /\ GameOver
    /\ pc' = "done"
    /\ UNCHANGED <<board, is_white_turn, ep_file, moves, j, fen, gameNo, last,
                   initial_board, board2, j2, fen2>>
    /\ UNCHANGED uci_vars

Next ==
    \/ ApplySan
    \/ FinalPosition
    \/ KeyPositions
    \/ ApplySan2
    \/ KeyFen
    \/ NewGame
    \/ Finish

Spec == Init /\ [][Next]_vars

\* generate_latex is one sequential thread, which runs on until it returns:
\* weak fairness of Next.  Next is enabled exactly when pc # "done", and the
\* condition is written with that state predicate in the place of
\* ENABLED <<Next>>_vars.
FairSpec == Spec /\ (<>[](pc # "done") => []<><<Next>>_vars)

(***************************************************************************)
(* The command loop of chess-uci.py: main and generate_move.               *)
(***************************************************************************)
\* generate_latex is not running
GameOff ==
    /\ initial_board = INITIAL_BOARD
    /\ board = reset.board
    /\ is_white_turn = reset.is_white_turn
    /\ ep_file = reset.ep_file
    /\ moves = <<>>
    /\ j = 0
    /\ pc = "off"
    /\ fen = <<>>
    /\ gameNo = 1
    /\ last = NoLast
    /\ board2 = NoBoard
    /\ j2 = 0
    /\ fen2 = <<>>

\* the work directory may hold an engine-output.dat of an earlier process
InitUci == GameOff /\ \E file \in OutputFiles : UciStart(file)

\* lines 40-44: input() returns the line raw
ReadLine(raw) ==
    /\ uci_pc = "read"
    /\ lines_read < MaxLines
    /\ lines_read' = lines_read + 1

\* line 52: cmd, for a line that is not blank
cmd(raw) == split(strip(raw))[1]

\* lines 46-48: a blank line, continue
Blank ==
    \E raw \in InputLines :
        /\ ReadLine(raw)
        /\ strip(raw) = <<>>
        /\ sent' = <<>>
        /\ UNCHANGED <<uci_pc, uci_moves, side_to_move, tokens,
                       uci_moves_file, output_file, run, written,
                       timeout, gos, bestmoves>>

\* lines 54-57
Uci ==
    \E raw \in InputLines :
        /\ ReadLine(raw)
        /\ strip(raw) # <<>>
        /\ cmd(raw) = UCI
        /\ tokens' = split(strip(raw))
        /\ sent' = <<ID_NAME, ID_AUTHOR, UCIOK>>
        /\ UNCHANGED <<uci_pc, uci_moves, side_to_move,
                       uci_moves_file, output_file, run, written,
                       timeout, gos, bestmoves>>

\* lines 59-60
IsReady ==
    \E raw \in InputLines :
        /\ ReadLine(raw)
        /\ strip(raw) # <<>>
        /\ cmd(raw) = ISREADY
        /\ tokens' = split(strip(raw))
        /\ sent' = <<READYOK>>
        /\ UNCHANGED <<uci_pc, uci_moves, side_to_move,
                       uci_moves_file, output_file, run, written,
                       timeout, gos, bestmoves>>

\* lines 62-64
UciNewGame ==
    \E raw \in InputLines :
        /\ ReadLine(raw)
        /\ strip(raw) # <<>>
        /\ cmd(raw) = UCINEWGAME
        /\ tokens' = split(strip(raw))
        /\ uci_moves' = <<>>
        /\ side_to_move' = "w"
        /\ sent' = <<>>
        /\ UNCHANGED <<uci_pc, uci_moves_file, output_file, run, written,
                       timeout, gos,
                       bestmoves>>

\* position_moves with the slice tokens[idx:], which keeps the word "moves"
position_moves_from_keyword(toks) ==
    IF Len(toks) > 1 /\ toks[2] = STARTPOS /\ contains(toks, MOVES)
    THEN SubSeq(toks, index(toks, MOVES) + 1, Len(toks))
    ELSE <<>>

\* lines 67-71: the move list a position line leaves in moves
position_moves(toks) ==
    IF Len(toks) > 1 /\ toks[2] = STARTPOS /\ contains(toks, MOVES)
    THEN SubSeq(toks, index(toks, MOVES) + 2, Len(toks))
    ELSE <<>>

\* lines 66-72
Position ==
    \E raw \in InputLines :
        /\ ReadLine(raw)
        /\ strip(raw) # <<>>
        /\ cmd(raw) = POSITION
        /\ tokens' = split(strip(raw))
        /\ uci_moves' = position_moves(tokens')
        /\ side_to_move' = (IF Len(uci_moves') % 2 = 0 THEN "w" ELSE "b")
        /\ sent' = <<>>
        /\ UNCHANGED <<uci_pc, uci_moves_file, output_file, run, written,
                       timeout, gos,
                       bestmoves>>

\* lines 74-75 and 151-164: go, up to the start of pdflatex.  compute_timeout
\* either raises ValueError at its int() (line 107), which ends the process
\* with a traceback, or returns; then generate_move writes uci-moves.tex and
\* removes engine-output.dat.
Go ==
    \E raw \in InputLines :
        /\ ReadLine(raw)
        /\ strip(raw) # <<>>
        /\ cmd(raw) = GO
        /\ tokens' = split(strip(raw))
        /\ gos' = gos + 1
        /\ sent' = <<>>
        /\ IF go_params(tokens').raised
           THEN /\ uci_pc' = "crashed"
                /\ UNCHANGED <<timeout, uci_moves_file, output_file>>
           ELSE /\ uci_pc' = "pdflatex"
                /\ timeout' = compute_timeout(tokens', side_to_move)
                /\ uci_moves_file' = <<replay_lines(uci_moves)>>
                /\ output_file' = os_remove(output_file)
        /\ UNCHANGED <<uci_moves, side_to_move, run, written, bestmoves>>

\* lines 166-204 and 78: pdflatex runs, and either is killed at the timeout
\* or returns; in both cases it has written engine-output.dat (file is
\* what it wrote) or has left the work directory as it was (file is <<>>).
\* After a timeout the move is "0000", else it is read from
\* engine-output.dat; then main sends the bestmove line.
GenerateMove ==
    /\ uci_pc = "pdflatex"
    /\ \E how \in {"timeout", "returned"}, file \in OutputFiles :
          /\ run' = how
          /\ written' = file
          /\ output_file' = (IF file = <<>> THEN output_file ELSE file)
          /\ LET bestmove == IF how = "timeout" THEN NULLMOVE
                             ELSE read_output(output_file')
             IN  sent' = <<BESTMOVE \o bestmove>>
    /\ bestmoves' = bestmoves + 1
    /\ uci_pc' = "read"
    /\ UNCHANGED <<uci_moves, side_to_move, tokens, uci_moves_file,
                   lines_read, gos, timeout>>

\* lines 80-81
Quit ==
    \E raw \in InputLines :
        /\ ReadLine(raw)
        /\ strip(raw) # <<>>
        /\ cmd(raw) = QUIT
        /\ tokens' = split(strip(raw))
        /\ uci_pc' = "exit"
        /\ sent' = <<>>
        /\ UNCHANGED <<uci_moves, side_to_move, uci_moves_file, output_file,
                       run, written,
                       timeout, gos, bestmoves>>

\* lines 54-81: a command that no branch of main handles
Unknown ==
    \E raw \in InputLines :
        /\ ReadLine(raw)
        /\ strip(raw) # <<>>
        /\ cmd(raw) \notin {UCI, ISREADY, UCINEWGAME, POSITION, GO, QUIT}
        /\ tokens' = split(strip(raw))
        /\ sent' = <<>>
        /\ UNCHANGED <<uci_pc, uci_moves, side_to_move, uci_moves_file,
                       output_file, run, written,
                       timeout, gos, bestmoves>>

\* lines 42-44: the end of stdin
Eof ==
    /\ uci_pc = "read"
    /\ uci_pc' = "exit"
    /\ sent' = <<>>
    /\ UNCHANGED <<uci_moves, side_to_move, tokens, uci_moves_file,
                   output_file, run, written, timeout, lines_read,
                   gos, bestmoves>>

NextUci ==
    \/ Blank /\ UNCHANGED game_vars
    \/ Uci /\ UNCHANGED game_vars
    \/ IsReady /\ UNCHANGED game_vars
    \/ UciNewGame /\ UNCHANGED game_vars
    \/ Position /\ UNCHANGED game_vars
    \/ Go /\ UNCHANGED game_vars
    \/ GenerateMove /\ UNCHANGED game_vars
    \/ Quit /\ UNCHANGED game_vars
    \/ Unknown /\ UNCHANGED game_vars
    \/ Eof /\ UNCHANGED game_vars

SpecUci == InitUci /\ [][NextUci]_vars

(***************************************************************************)
(* Properties.  last describes the latest call of apply_san of the game    *)
(* being replayed: last.board, last.is_white_turn and last.ep_file are the *)
(* fields before the call, board, is_white_turn and ep_file those after.   *)
(***************************************************************************)
Squares == (0..7) \X (0..7)

\* apply_san has been called on the Board of the current game
Called == last.kind # "none"

\* the latest token without its check and mate symbols
LastStripped == rstrip(last.san, {"+", "#"})

LastIsCastle == LastStripped \in KINGSIDE \cup QUEENSIDE

\* piece, target square and disambiguation the latest token names
LastParsed == parse_san(LastStripped, last.is_white_turn)

\* the squares whose piece, before the latest call, passed the filters of
\* the scan: side to move and type, disambiguation, reach of the target
Candidates ==
    { sq \in Squares :
        matches(last.board, last.ep_file, LastParsed, sq[1], sq[2]) }

\* C1: from a fresh Board, after the tokens e4, e5, Nf3, Nc6, Bb5 applied in
\* that order, to_fen returns
\* r1bqkbnr/pppp1ppp/2n5/1B2p3/4P3/5N2/PPPP1PPP/RNBQK2R.
C1_SpecExampleFen ==
    /\ (j = 5 /\ SubSeq(moves, 1, 5) = SpecExample)
          => Str(to_fen(board))
                = "r1bqkbnr/pppp1ppp/2n5/1B2p3/4P3/5N2/PPPP1PPP/RNBQK2R"
    /\ (pc = "final" /\ moves = SpecExample)
          => Str(fen) = "r1bqkbnr/pppp1ppp/2n5/1B2p3/4P3/5N2/PPPP1PPP/RNBQK2R"

\* the five tokens have been applied and to_fen has been called
C1_Witness == pc = "final" /\ moves = SpecExample /\ j = 5

\* C2: when, before the call, no square holds a piece of the side to move
\* that matches the token's type and disambiguation and reaches the
\* destination, apply_san leaves all 64 squares as they were and flips the
\* side to move.
C2_FailedLeavesBoard ==
    (Called /\ ~LastIsCastle /\ Candidates = {})
        => /\ \A sq \in Squares :
                 get(board, sq[1], sq[2]) = get(last.board, sq[1], sq[2])
           /\ is_white_turn = ~last.is_white_turn

\* an unresolvable token has been processed after a move changed the board
C2_Witness ==
    /\ Called /\ ~LastIsCastle /\ Candidates = {}
    /\ last.before.kind = "moved"
    /\ board # INITIAL_BOARD

\* C3: every token processed by apply_san (castling literal, resolved move,
\* failed resolution) negates is_white_turn, so that after n tokens from a
\* fresh Board white is to move exactly when n is even.
C3_SideAlternates ==
    /\ Called => is_white_turn = ~last.is_white_turn
    /\ is_white_turn <=> (j % 2 = 0)

\* black is to move after a castling literal that followed a failed
\* resolution that followed a resolved move
C3_Witness ==
    /\ last.kind = "castle"
    /\ last.before.kind = "failed"
    /\ j = 3
    /\ ~is_white_turn
\* the piece letter of a type in the colour of a side
ColouredPiece(is_white, letter) ==
    CASE letter = "Q" -> IF is_white THEN "Q" ELSE "q"
      [] letter = "R" -> IF is_white THEN "R" ELSE "r"
      [] letter = "B" -> IF is_white THEN "B" ELSE "b"
      [] letter = "N" -> IF is_white THEN "N" ELSE "n"
      [] letter = "P" -> IF is_white THEN "P" ELSE "p"

\* a call that moved a pawn two ranks: kind and info of that call
IsDoublePush(kind, info) ==
    /\ kind = "moved"
    /\ info.piece_char \in {"P", "p"}
    /\ abs(info.target_rank - info.from_rank) = 2

\* C4: after any token processed by apply_san, ep_file is the destination
\* file if the token was executed as a pawn two-rank advance and -1 in every
\* other case.
C4_EpFileOnlyAfterDoublePush ==
    Called => ep_file = IF IsDoublePush(last.kind, last.info)
                        THEN last.info.target_file
                        ELSE -1

\* the square X the pawn pushed two ranks by the call before the latest
\* landed on, and the square it skipped
PushedTo == <<last.before.info.target_file, last.before.info.target_rank>>

Skipped ==
    <<last.before.info.target_file,
      (last.before.info.from_rank + last.before.info.target_rank) \div 2>>

\* the call before the latest was a double push to X, and the latest token
\* is the capture token of a pawn of the side to move standing beside X,
\* with the skipped square as destination
EnPassantCase ==
    /\ Called
    /\ IsDoublePush(last.before.kind, last.before.info)
    /\ ~LastIsCastle
    /\ contains(LastStripped, "x")
    /\ LastParsed.piece_char = ColouredPiece(last.is_white_turn, "P")
    /\ LastParsed.disambig_file # <<>>
    /\ abs(LastParsed.disambig_file[1] - PushedTo[1]) = 1
    /\ <<LastParsed.target_file, LastParsed.target_rank>> = Skipped
    /\ get(last.board, LastParsed.disambig_file[1], PushedTo[2])
          = LastParsed.piece_char

\* C5: in the en-passant case apply_san puts the capturing pawn (the piece
\* it promotes to, if the token has a promotion suffix) on the skipped
\* square and empties the capturer's source square and square X, the
\* square of the pushed pawn; the destination is not emptied.
C5_EnPassantClearsPushedPawn ==
    EnPassantCase
        => /\ get(board, Skipped[1], Skipped[2])
                 = IF LastParsed.promo = <<>>
                   THEN LastParsed.piece_char
                   ELSE ColouredPiece(last.is_white_turn, LastParsed.promo[1])
           /\ get(board, LastParsed.disambig_file[1], PushedTo[2]) = "."
           /\ get(last.board, PushedTo[1], PushedTo[2])
                 = ColouredPiece(~last.is_white_turn, "P")
           /\ get(board, PushedTo[1], PushedTo[2]) = "."

\* a black pawn has just captured a white pawn en passant
C5_Witness == EnPassantCase /\ ~last.is_white_turn

\* the latest token was a resolved pawn move with promotion suffix
PromotionCase ==
    /\ Called
    /\ ~LastIsCastle
    /\ contains(LastStripped, "=")
    /\ LastParsed.piece_char \in {"P", "p"}
    /\ LastParsed.promo # <<>>
    /\ LastParsed.promo[1] \in {"Q", "R", "B", "N"}
    /\ Candidates # {}

\* C6: after a resolved pawn move with suffix =Q, =R, =B or =N the
\* destination holds the named piece in the colour of the side that moved,
\* never a pawn, and the pawn's source square is empty.
C6_PromotionPiece ==
    PromotionCase
        => /\ last.kind = "moved"
           /\ get(board, LastParsed.target_file, LastParsed.target_rank)
                 = ColouredPiece(last.is_white_turn, LastParsed.promo[1])
           /\ get(board, LastParsed.target_file, LastParsed.target_rank)
                 \notin {"P", "p"}
           /\ get(last.board, last.info.from_file, last.info.from_rank)
                 = ColouredPiece(last.is_white_turn, "P")
           /\ get(board, last.info.from_file, last.info.from_rank) = "."

\* a black pawn has just promoted
C6_Witness == PromotionCase /\ ~last.is_white_turn

\* white to move, king e1, rook h1, f1 and g1 empty, token O-O or 0-0
KingsideCase ==
    /\ Called
    /\ last.is_white_turn
    /\ LastStripped \in KINGSIDE
    /\ get(last.board, 4, 0) = "K"
    /\ get(last.board, 7, 0) = "R"
    /\ get(last.board, 5, 0) = "."
    /\ get(last.board, 6, 0) = "."

\* C7: in the kingside case the call leaves the king on g1, the rook on f1,
\* e1 and h1 empty, and every other square of the board as it was.
C7_KingsideCastle ==
    KingsideCase
        => /\ get(board, 6, 0) = "K"
           /\ get(board, 5, 0) = "R"
           /\ get(board, 4, 0) = "."
           /\ get(board, 7, 0) = "."
           /\ \A sq \in Squares :
                 (sq[2] # 0 \/ sq[1] \notin {4, 5, 6, 7})
                    => get(board, sq[1], sq[2]) = get(last.board, sq[1], sq[2])

\* white has just castled kingside with f1 and g1 open
C7_Witness == KingsideCase /\ j > 1
\* position of a square in the scan: rank 1 to rank 8, file a to file h
ScanIndex(sq) == sq[2] * 8 + sq[1]

FirstCandidate ==
    CHOOSE sq \in Candidates :
        \A other \in Candidates : ScanIndex(sq) <= ScanIndex(other)

\* C8: when several pieces match the token and reach the destination,
\* apply_san moves the candidate that comes first in the scan order (it
\* leaves its square and, unless promoted, stands on the destination), and
\* every other candidate still stands on its square.
C8_FirstCandidateOnlyMoves ==
    (Called /\ ~LastIsCastle /\ Cardinality(Candidates) >= 2)
        => /\ last.kind = "moved"
           /\ <<last.info.from_file, last.info.from_rank>> = FirstCandidate
           /\ get(board, FirstCandidate[1], FirstCandidate[2]) = "."
           /\ get(board, LastParsed.target_file, LastParsed.target_rank)
                 = IF LastParsed.promo = <<>>
                   THEN LastParsed.piece_char
                   ELSE ColouredPiece(last.is_white_turn, LastParsed.promo[1])
           /\ \A sq \in Candidates \ {FirstCandidate} :
                 get(board, sq[1], sq[2]) = get(last.board, sq[1], sq[2])

PieceLetters ==
    {"P", "N", "B", "R", "Q", "K", "p", "n", "b", "r", "q", "k"}

FenDigits == <<"1", "2", "3", "4", "5", "6", "7", "8">>

IsFenDigit(c) == \E n \in 1..8 : FenDigits[n] = c

\* number of squares a character of a rank field stands for
FenWidth(c) == IF IsFenDigit(c) THEN CHOOSE n \in 1..8 : FenDigits[n] = c ELSE 1

\* the fields of a string separated by "/"
RECURSIVE FenFields(_)
FenFields(s) ==
    IF ~contains(s, "/") THEN <<s>>
    ELSE <<SubSeq(s, 1, index(s, "/"))>>
             \o FenFields(SubSeq(s, index(s, "/") + 2, Len(s)))

\* the squares a rank field describes, file a to file h
RECURSIVE FenExpand(_)
FenExpand(f) ==
    IF f = <<>> THEN <<>>
    ELSE (IF IsFenDigit(f[1]) THEN [i \in 1..FenWidth(f[1]) |-> "."]
          ELSE <<f[1]>>) \o FenExpand(Tail(f))

RECURSIVE FenSquares(_)
FenSquares(f) == IF f = <<>> THEN 0 ELSE FenWidth(f[1]) + FenSquares(Tail(f))

FenRankOK(f) ==
    /\ \A i \in 1..Len(f) : f[i] \in PieceLetters \/ IsFenDigit(f[i])
    /\ FenSquares(f) = 8
    /\ \A i \in 1..(Len(f) - 1) : ~(IsFenDigit(f[i]) /\ IsFenDigit(f[i + 1]))

\* C9: in every reachable state to_fen returns eight rank fields separated
\* by "/", each made of piece letters and digits 1-8 that add up to eight
\* squares with no two digits adjacent, the k-th field describing rank
\* 9 - k with white pieces in uppercase and black pieces in lowercase.
C9_FenSyntax ==
    LET fields == FenFields(to_fen(board))
    IN  /\ Len(fields) = 8
        /\ \A k \in 1..8 :
              /\ FenRankOK(fields[k])
              /\ FenExpand(fields[k]) = board[9 - k]
              /\ \A i \in 1..8 :
                    board[9 - k][i] \in PieceLetters \cup {"."}

\* a position with a rank field of two digits and a promoted black piece
\* on rank 1
C9_Witness ==
    LET fields == FenFields(to_fen(board))
    IN  /\ \E k \in 1..8 :
              Cardinality({i \in 1..Len(fields[k]) : IsFenDigit(fields[k][i])})
                  >= 2
        /\ \E i \in 1..8 : board[1][i] \in {"q", "r", "b", "n"}
        /\ j > 0

\* C10: the piece field of a fresh Board is
\* rnbqkbnr/pppppppp/8/8/8/8/PPPPPPPP/RNBQKBNR, with white to move and no
\* en-passant file, for the first game and for every later one.
C10_FreshBoard ==
    /\ (pc = "replay" /\ j = 0)
          => /\ Str(to_fen(board))
                   = "rnbqkbnr/pppppppp/8/8/8/8/PPPPPPPP/RNBQKBNR"
             /\ is_white_turn
             /\ ep_file = -1
    /\ (pc = "final" /\ moves = <<>>)
          => Str(fen) = "rnbqkbnr/pppppppp/8/8/8/8/PPPPPPPP/RNBQKBNR"

\* the Board of a second game, before its first token
C10_Witness == pc = "replay" /\ j = 0 /\ gameNo = 2

C12_NoSharedState ==
    /\ initial_board = INITIAL_BOARD
    /\ (pc = "replay" /\ j = 0)
          => /\ board = INITIAL_BOARD
             /\ is_white_turn
             /\ ep_file = -1
    /\ (pc = "key" /\ j2 = 0)
          => board2 = [board |-> INITIAL_BOARD, is_white_turn |-> TRUE,
                       ep_file |-> -1]
    /\ pc \in {"key", "keyfen"} => to_fen(board) = fen

\* the second Board of a second game, replayed to the end
C12_Witness ==
    /\ gameNo = 2
    /\ pc = "key"
    /\ j2 = Len(moves)
    /\ board2.board # INITIAL_BOARD
    /\ board # INITIAL_BOARD

\* C13: the replay of a finite token list terminates.  Every run of the
\* game loop comes to its end; each step of the move loop applies the next
\* token of the list, so that the tokens are processed once each and in
\* order; a call looks at no more than 64 squares (at all 64 when it finds
\* no source); and the final position is taken after as many apply_san
\* steps as the list has tokens.
C13_ReplayTerminates ==
    /\ <>(pc = "done")
    /\ [][(pc = "replay" /\ pc' = "replay")
             => /\ j' = j + 1
                /\ moves' = moves
                /\ last'.san = moves[j'] ]_vars
    /\ [](/\ j <= Len(moves)
          /\ (pc # "replay" => j = Len(moves))
          /\ (pc \in {"key", "keyfen"} => j2 <= Len(moves))
          /\ (Called /\ ~LastIsCastle)
                => /\ scanned(last.board, last.ep_file, LastParsed, 0) <= 64
                   /\ last.kind = "failed"
                         => scanned(last.board, last.ep_file, LastParsed, 0)
                               = 64)

\* the end of the run, after a second game with key positions
C13_Witness ==
    /\ pc = "done"
    /\ gameNo = 2
    /\ Len(moves) > 4
    /\ j = Len(moves)
    /\ j2 = Len(moves)

\* C14: after every token resolved by the scan (no castling) that has no
\* promotion suffix, the destination square holds the piece that stood on
\* the selected source square before the call: the piece is relocated,
\* never removed.
C14_MovedPieceOnTarget ==
    (Called /\ last.kind = "moved" /\ last.info.promo = <<>>)
        => get(board, last.info.target_file, last.info.target_rank)
              = get(last.board, last.info.from_file, last.info.from_rank)

\* White for an uppercase piece letter
IsWhitePiece(piece) == isupper(piece)

\* C15: a pawn move that changes file is resolved only when the destination
\* is occupied by a piece of the opposite colour, or is empty and is the
\* en-passant target (its file is ep_file, and its rank is rank 6 for a
\* white pawn, rank 3 for a black one); a pawn never captures a piece of
\* its own colour.
C15_PawnDiagonal ==
    (/\ Called
     /\ last.kind = "moved"
     /\ last.info.piece_char \in {"P", "p"}
     /\ last.info.from_file # last.info.target_file)
        => LET target == get(last.board, last.info.target_file,
                             last.info.target_rank)
           IN  \/ /\ target # "."
                  /\ IsWhitePiece(target) # IsWhitePiece(last.info.piece_char)
               \/ /\ target = "."
                  /\ last.info.target_file = last.ep_file
                  /\ last.info.target_rank
                        = (IF last.is_white_turn THEN 5 ELSE 2)

\* C16: whenever apply_san executes an en-passant capture (a pawn changes
\* file onto an empty square), the square cleared besides the source held,
\* before the call, a pawn of the other side, and that pawn had come there
\* by a two-rank advance executed on the immediately preceding ply; this
\* after any token sequence, unresolvable tokens included.
C16_EnPassantClearsJustPushedPawn ==
    (Called /\ last.kind = "moved" /\ last.info.is_ep)
        => /\ get(last.board, last.info.target_file, last.info.from_rank)
                 = ColouredPiece(~last.is_white_turn, "P")
           /\ IsDoublePush(last.before.kind, last.before.info)
           /\ PushedTo = <<last.info.target_file, last.info.from_rank>>

\* source and destination square of the latest resolved move
LastFrom == <<last.info.from_file, last.info.from_rank>>

LastTo == <<last.info.target_file, last.info.target_rank>>

\* the squares of the straight segment from a to b, without a and b
StrictlyBetween(a, b) ==
    { s \in Squares :
        /\ s # a
        /\ s # b
        /\ (s[1] - a[1]) * (b[2] - a[2]) = (s[2] - a[2]) * (b[1] - a[1])
        /\ (a[1] <= s[1] /\ s[1] <= b[1]) \/ (b[1] <= s[1] /\ s[1] <= a[1])
        /\ (a[2] <= s[2] /\ s[2] <= b[2]) \/ (b[2] <= s[2] /\ s[2] <= a[2]) }

OnCommonLine(a, b) == a[1] = b[1] \/ a[2] = b[2]

OnCommonDiagonal(a, b) == abs(a[1] - b[1]) = abs(a[2] - b[2])

\* C17: a rook, bishop or queen move is resolved only if source and
\* destination lie on a common file or rank (rook, queen) or on a common
\* diagonal (bishop, queen), and every square strictly between them is
\* empty before the move.
C17_SlidersNeedClearLine ==
    (/\ Called
     /\ last.kind = "moved"
     /\ upper(last.info.piece_char) \in {"R", "B", "Q"})
        => /\ CASE upper(last.info.piece_char) = "R"
                      -> OnCommonLine(LastFrom, LastTo)
                [] upper(last.info.piece_char) = "B"
                      -> OnCommonDiagonal(LastFrom, LastTo)
                [] upper(last.info.piece_char) = "Q"
                      -> \/ OnCommonLine(LastFrom, LastTo)
                         \/ OnCommonDiagonal(LastFrom, LastTo)
           /\ \A s \in StrictlyBetween(LastFrom, LastTo) :
                 get(last.board, s[1], s[2]) = "."

\* a bishop has moved over three squares or more
C17_Witness ==
    /\ Called
    /\ last.kind = "moved"
    /\ upper(last.info.piece_char) = "B"
    /\ Cardinality(StrictlyBetween(LastFrom, LastTo)) >= 3

\* the latest call moved a pawn
PawnMoved ==
    /\ Called
    /\ last.kind = "moved"
    /\ last.info.piece_char \in {"P", "p"}

\* +1 for the side that moved in the latest call when white, -1 when black
Forward == IF last.is_white_turn THEN 1 ELSE -1

\* C18: a pawn advance of two ranks is resolved only from the pawn's
\* starting rank (rank 2 for white, rank 7 for black), straight and forward,
\* with the square passed over and the destination both empty; an advance of
\* one square on the file is resolved only forward onto an empty square.
C18_PawnAdvance ==
    LET dr == last.info.target_rank - last.info.from_rank
    IN  /\ (PawnMoved /\ abs(dr) = 2)
              => /\ last.info.from_file = last.info.target_file
                 /\ dr = 2 * Forward
                 /\ last.info.from_rank = (IF last.is_white_turn THEN 1 ELSE 6)
                 /\ get(last.board, last.info.from_file,
                        last.info.from_rank + Forward) = "."
                 /\ get(last.board, last.info.target_file,
                        last.info.target_rank) = "."
        /\ (PawnMoved /\ last.info.from_file = last.info.target_file
                      /\ abs(dr) # 2)
              => /\ dr = Forward
                 /\ get(last.board, last.info.target_file,
                        last.info.target_rank) = "."

\* a black pawn has advanced two ranks, after a white pawn advanced one
C18_Witness ==
    /\ PawnMoved
    /\ ~last.is_white_turn
    /\ last.info.target_rank - last.info.from_rank = -2
    /\ last.before.kind = "moved"
    /\ last.before.info.piece_char = "P"
    /\ last.before.info.target_rank - last.before.info.from_rank = 1

\* the number of non-empty squares of a piece field
Pieces(brd) == Cardinality({ sq \in Squares : get(brd, sq[1], sq[2]) # "." })

\* C19: the number of non-empty squares never increases from one apply_san
\* step to the next, and so never exceeds the 32 of the initial position.
C19_PieceCountNeverGrows ==
    /\ Called => Pieces(board) <= Pieces(last.board)
    /\ Pieces(board) <= 32
    /\ pc \in {"key", "keyfen"} => Pieces(board2.board) <= 32

\* a second capture has just been made
C19_Witness ==
    /\ Called
    /\ Pieces(board) < Pieces(last.board)
    /\ Pieces(board) <= 30

(***************************************************************************)
(* Properties of the command loop of chess-uci.py.                         *)
(***************************************************************************)
\* a line of stdout that is a bestmove line
IsBestmove(l) == startswith(l, BESTMOVE)

\* the latest line read that was not blank is a go line
LatestIsGo == tokens # <<>> /\ tokens[1] = GO

\* the first ENGINEMOVE line of engine-output.dat names no move: nothing
\* or "none" follows the colon
EngineReportsNoMove ==
    /\ output_file # <<>>
    /\ \E k \in 1..Len(output_file[1]) :
          /\ startswith(strip(output_file[1][k]), ENGINEMOVE)
          /\ \A i \in 1..(k - 1) :
                ~startswith(strip(output_file[1][i]), ENGINEMOVE)
          /\ strip(output_file[1][k]) \in {ENGINEMOVE, ENGINEMOVE \o NONE}

\* C20: every go command is answered by exactly one bestmove line, sent
\* before the next line of input is read (and so before main ends): when
\* main is about to read, or has ended, as many bestmove lines have been
\* sent as go commands were read.  The answer to a go is the single line
\* "bestmove 0000" whenever pdflatex timed out, engine-output.dat does not
\* exist, or its first ENGINEMOVE line names no move or "none".  No command
\* but go sends a bestmove line.
C20_GoAnsweredByOneBestmove ==
    /\ uci_pc \in {"read", "exit", "crashed"} => bestmoves = gos
    /\ (uci_pc = "read" /\ LatestIsGo /\ sent # <<>>)
          => /\ Len(sent) = 1
             /\ IsBestmove(sent[1])
             /\ (run = "timeout" \/ output_file = <<>> \/ EngineReportsNoMove)
                   => sent[1] = BESTMOVE \o NULLMOVE
    /\ (\E i \in 1..Len(sent) : IsBestmove(sent[i])) => LatestIsGo

\* a file of the work directory that holds an ENGINEMOVE line
HasEngineMoveLine(file) ==
    /\ file # <<>>
    /\ \E k \in 1..Len(file[1]) : startswith(strip(file[1][k]), ENGINEMOVE)

\* a go has just been answered: sent holds the answer
GoAnswered == uci_pc = "read" /\ LatestIsGo /\ sent # <<>>

\* the move of the bestmove line in sent
MoveSent == SubSeq(sent[1], Len(BESTMOVE) + 1, Len(sent[1]))

\* C21: the move reported for a go command is never taken from an
\* engine-output.dat written before the pdflatex run of that go: when
\* pdflatex is started the file does not exist, the answer is "0000" if the
\* run has written no ENGINEMOVE line, and a move other than "0000" stands
\* on an ENGINEMOVE line this run wrote.
C21_NoStaleMove ==
    /\ uci_pc = "pdflatex" => output_file = <<>>
    /\ GoAnswered
          => /\ ~HasEngineMoveLine(written) => MoveSent = NULLMOVE
             /\ MoveSent # NULLMOVE
                   => \E k \in 1..Len(written[1]) :
                         strip(written[1][k]) = ENGINEMOVE \o MoveSent

\* a second go whose pdflatex run returned without writing the file
C21_Witness ==
    /\ GoAnswered
    /\ bestmoves = 2
    /\ run = "returned"
    /\ written = <<>>
    /\ MoveSent = NULLMOVE

\* the positions of the word "moves" in the latest line
MovesKeywordAt == { i \in 1..Len(tokens) : tokens[i] = MOVES }

\* the move list the latest line gives as a position command: the words
\* after the first "moves" if the second word is "startpos", else none
MovesOfPosition ==
    IF Len(tokens) >= 2 /\ tokens[2] = STARTPOS /\ MovesKeywordAt # {}
    THEN LET first == CHOOSE i \in MovesKeywordAt :
                          \A k \in MovesKeywordAt : i <= k
         IN  [n \in 1..(Len(tokens) - first) |-> tokens[first + n]]
    ELSE <<>>

\* C22: the tracked move list is the move list of the most recent position
\* command, replaced and never appended to, and is empty after ucinewgame
\* and after a position command without "startpos" or without "moves";
\* side_to_move is "w" exactly when the list has even length; and only a
\* position or ucinewgame line changes either of them: uci, isready, go
\* (and the run of pdflatex), blank and unknown lines leave both as they
\* are.
C22_TrackedMoves ==
    /\ [](/\ (side_to_move = "w") <=> (Len(uci_moves) % 2 = 0)
          /\ side_to_move \in {"w", "b"}
          /\ (tokens # <<>> /\ tokens[1] = POSITION)
                => uci_moves = MovesOfPosition
          /\ (tokens # <<>> /\ tokens[1] = UCINEWGAME) => uci_moves = <<>>)
    /\ [][(uci_moves' # uci_moves \/ side_to_move' # side_to_move)
             => /\ lines_read' = lines_read + 1
                /\ tokens'[1] \in {POSITION, UCINEWGAME}]_vars

\* a go has been answered after a position command with one move
C22_Witness ==
    /\ GoAnswered
    /\ Len(uci_moves) = 1
    /\ side_to_move = "b"

\* the clock of the side to move on the latest line, a go line: <<>> when
\* the line carries none, else <<milliseconds>>
ClockOfSideToMove ==
    params_get(go_params(tokens).params,
               IF side_to_move = "w" THEN WTIME ELSE BTIME)

\* the remaining time of the side to move in seconds, not below zero
RemainingSeconds == fmax(frac(ClockOfSideToMove[1], 1000), frac(0, 1))

\* compute_timeout has returned for the latest line, a go line
TimeoutComputed == uci_pc = "pdflatex"

\* C23: for a go command that carries the clock of the side to move (wtime
\* for "w", btime for "b") compute_timeout returns at most 50% of that
\* side's remaining time and at most 30 s; for a go command without that
\* clock it returns exactly 30 s.
C23_TimeoutWithinHalfOfClock ==
    TimeoutComputed
        => IF ClockOfSideToMove = <<>>
           THEN timeout = <<30, 1>>
           ELSE /\ fle(timeout, frac(30, 1))
                /\ fle(timeout, fmul(RemainingSeconds, frac(1, 2)))

====
